---- MODULE Spec2Model ----
(***************************************************************************)
(* Model of depthai_sdk/previews.py: the PreviewDecoder functions, the     *)
(* Previews registry and the MouseClickTracker.                            *)
(*                                                                         *)
(* A numpy array is the record [shape, data]: shape is the tuple of        *)
(* extents, data the samples in row-major order.  A numpy scalar is the    *)
(* array of shape <<>>.  Python indices are 0-based and may be negative.   *)
(***************************************************************************)
EXTENDS Integers, Sequences, FiniteSets, TLC

VARIABLES
    points,     \* MouseClickTracker.points : name -> <<x, y>>
    values,     \* MouseClickTracker.values : name -> formatted string
    manager,    \* the shared PreviewManager object: attribute name -> value
    ret,        \* what the last call returned (an array; NoFrame for None)
    raised,     \* the exception the last call raised ("" when it returned)
    call,       \* the last call: [op, name, arg]
    given,      \* the last call's input: [hasMgr, value]
    releases,   \* history: per name, the last two left-button releases its handler saw
    extracted,  \* history: per name, the coordinate and frame its value was read from
    ops         \* number of calls made so far

vars == <<points, values, manager, ret, raised, call, given, releases, extracted, ops>>

----------------------------------------------------------------------------
(* Bounds *)

\* Number of calls in one run of the tracker specification.
MaxOps == 3

\* Frames have extents 1..MaxDim along each image axis.
MaxDim == 2

----------------------------------------------------------------------------
(* numpy arrays *)

RECURSIVE Prod(_)
Prod(s) == IF s = <<>> THEN 1 ELSE Head(s) * Prod(Tail(s))

NoFrame == [shape |-> <<0>>, data |-> <<>>]

\* The array of the given shape whose k-th sample (row-major, from 0) is
\* (base + k) mod 256.
MkFrame(shape, base) ==
    [shape |-> shape, data |-> [k \in 1..Prod(shape) |-> (base + k - 1) % 256]]

Ndim(a) == Len(a.shape)

\* a[i] raises IndexError: a is a scalar, or i is outside -n..n-1.
CanIndex(a, i) ==
    /\ Ndim(a) > 0
    /\ i >= -Head(a.shape)
    /\ i < Head(a.shape)

\* a[i] for an index numpy accepts: a negative i counts from the end.
Index(a, i) ==
    LET n      == Head(a.shape)
        k      == IF i < 0 THEN i + n ELSE i
        stride == Prod(Tail(a.shape))
    IN  [shape |-> Tail(a.shape),
         data  |-> SubSeq(a.data, k * stride + 1, (k + 1) * stride)]

\* a[::-1] of a one-dimensional array.
Reversed(a) ==
    [shape |-> a.shape,
     data  |-> [k \in 1..Len(a.data) |-> a.data[Len(a.data) + 1 - k]]]

\* numpy's print options (defaults): the width of a line, the size above
\* which an array is summarised and the items kept at either end of an axis.
linewidth == 75
threshold == 1000
edgeitems == 3

RECURSIVE Spaces(_)
Spaces(n) == IF n <= 0 THEN "" ELSE " " \o Spaces(n - 1)

RECURSIVE Newlines(_)
Newlines(n) == IF n <= 0 THEN "" ELSE "\n" \o Newlines(n - 1)

\* line.rstrip().
RECURSIVE RStrip(_)
RStrip(line) ==
    IF Len(line) > 0 /\ SubSeq(line, Len(line), Len(line)) = " "
    THEN RStrip(SubSeq(line, 1, Len(line) - 1))
    ELSE line

\* The items of an axis of n entries that are printed, in order: all of
\* them, or in a summarised array with more than 2 * edgeitems entries the
\* edgeitems first, "..." (written -1) and the edgeitems last.
Items(n, summary) ==
    IF summary /\ 2 * edgeitems < n
    THEN [k \in 1..(2 * edgeitems + 1) |->
             IF k <= edgeitems THEN k - 1
             ELSE IF k = edgeitems + 1 THEN -1
             ELSE n - (2 * edgeitems + 1 - k) - 1]
    ELSE [k \in 1..n |-> k - 1]

\* The column width: the longest str() among the samples that are printed.
RECURSIVE ItemWidth(_, _)
ItemWidth(a, summary) ==
    IF Ndim(a) = 0
    THEN Len(ToString(a.data[1]))
    ELSE LET items == Items(Head(a.shape), summary)
             ws    == {ItemWidth(Index(a, items[k]), summary) :
                          k \in {j \in DOMAIN items : items[j] >= 0}}
         IN  CHOOSE m \in ws : \A x \in ws : m >= x

\* numpy's _extendLine on the pair <<s, line>>: the word is appended to the
\* line, after the line was closed and a new one begun at the prefix when
\* the word would pass line_width and the line holds more than the prefix.
extendLine(sl, word, line_width, next_line_prefix) ==
    IF /\ Len(sl[2]) + Len(word) > line_width
       /\ Len(sl[2]) > Len(next_line_prefix)
    THEN <<sl[1] \o RStrip(sl[2]) \o "\n", next_line_prefix \o word>>
    ELSE <<sl[1], sl[2] \o word>>

\* str() of an array (numpy's _formatArray): every sample is padded to the
\* column width; the samples of a row are separated by a blank and wrapped
\* at the line width; the sub-arrays of an array of d >= 2 dimensions are
\* separated by d - 1 newlines and the hanging indentation; each level of
\* nesting indents by one blank and narrows the line by one.
RECURSIVE NpStrW(_, _, _, _, _)
NpStrW(a, w, hanging_indent, curr_width, summary) ==
    IF Ndim(a) = 0
    THEN Spaces(w - Len(ToString(a.data[1]))) \o ToString(a.data[1])
    ELSE LET items      == Items(Head(a.shape), summary)
             m          == Len(items)
             word(k)    == IF items[k] < 0 THEN "..."
                           ELSE NpStrW(Index(a, items[k]), w,
                                       hanging_indent \o " ", curr_width - 1, summary)
             elem_width == curr_width - 1
             \* <<s, line>> after the words lo..hi went onto <<s, line>> = sl,
             \* each but the last of the row followed by the separator.  The
             \* words go on in order, the first half of them before the
             \* second: the test on the line (which holds its indentation
             \* at least) makes the first half's result a value before the
             \* second half starts, so that long rows evaluate in
             \* logarithmic depth.
             RECURSIVE Row(_, _, _)
             Row(lo, hi, sl) ==
                 IF lo = hi
                 THEN LET e == extendLine(sl, word(lo), elem_width, hanging_indent)
                      IN  IF lo = m THEN e ELSE <<e[1], e[2] \o " ">>
                 ELSE LET mid  == (lo + hi) \div 2
                          half == Row(lo, mid, sl)
                      IN  IF Len(half[2]) > 0 THEN Row(mid + 1, hi, half) ELSE half
             line_sep   == Newlines(Ndim(a) - 1)
             RECURSIVE Blocks(_, _)
             Blocks(lo, hi) ==
                 IF lo = hi
                 THEN hanging_indent \o word(lo)
                      \o (IF lo = m THEN "" ELSE line_sep)
                 ELSE LET mid == (lo + hi) \div 2
                      IN  Blocks(lo, mid) \o Blocks(mid + 1, hi)
             s          == IF Ndim(a) = 1
                           THEN LET r == Row(1, m, <<"", hanging_indent>>)
                                IN  r[1] \o r[2]
                           ELSE Blocks(1, m)
         IN  "[" \o SubSeq(s, Len(hanging_indent) + 1, Len(s)) \o "]"

\* "{}".format(a) and str(a): a scalar is its digits, an array without
\* samples is "[]", an array of more than threshold samples is summarised.
NpStr(a) ==
    IF Ndim(a) = 0 THEN ToString(a.data[1])
    ELSE IF Len(a.data) = 0 THEN "[]"
    ELSE LET summary == Len(a.data) > threshold
         IN  NpStrW(a, ItemWidth(a, summary), " ", linewidth, summary)

----------------------------------------------------------------------------
(* cv2 and numpy primitives used by the decoders *)

\* A real number is the pair <<n, d>> standing for n / d; d = 0 is an
\* infinite quotient (numpy's result of dividing by zero under errstate).
RMul(a, b) == <<a[1] * b[1], a[2] * b[2]>>

\* <<n, d>> / v for an integer sample v.
RDivInt(a, v) == <<a[1], a[2] * v>>

\* float -> uint8 (ndarray.astype(np.uint8)): truncation toward zero for a
\* value in 0..255.  A value out of range, or an infinite one, has no
\* defined result in C; the builds of numpy either keep the low byte of the
\* integer conversion ("wrap", infinity giving 0) or saturate ("saturate").
CastModes == {"wrap", "saturate"}

AsUint8(q, cast) ==
    IF q[2] = 0
    THEN IF cast = "wrap" THEN 0 ELSE 255
    ELSE LET t == q[1] \div q[2]
         IN  IF t <= 255 THEN t
             ELSE IF cast = "wrap" THEN t % 256 ELSE 255

\* 2 * tan(radians(fov / 2)), fov in hundredths of a degree.  For 71.86
\* degrees the float is 1.4493550888846185; 7641 / 5272 is the convergent of
\* its continued fraction that agrees with it to 4 parts in 10^9.
TwoTanHalf(fov) ==
    CASE fov = 7186 -> <<7641, 5272>>
      [] fov = 9000 -> <<2, 1>>

\* The payload of a compressed image is modelled as <<channels, height,
\* width>> followed by the samples.  cv2.imdecode returns None (NoFrame) for a
\* payload it cannot decode.
IMREAD_GRAYSCALE == 0
IMREAD_COLOR == 1

Encode(img) ==
    <<(IF Ndim(img) = 3 THEN img.shape[3] ELSE 1), img.shape[1], img.shape[2]>>
    \o img.data

\* BGR -> gray, as cv2 weighs the channels.
Gray(b, g, r) == (114 * b + 587 * g + 299 * r + 500) \div 1000

imdecode(data, flag) ==
    IF Len(data) < 3 \/ Len(data) # 3 + data[1] * data[2] * data[3]
    THEN NoFrame
    ELSE LET c   == data[1]
             h   == data[2]
             w   == data[3]
             px  == SubSeq(data, 4, Len(data))
         IN  IF flag = IMREAD_GRAYSCALE
             THEN [shape |-> <<h, w>>,
                   data  |-> [k \in 1..(h * w) |->
                                 IF c = 1 THEN px[k]
                                 ELSE Gray(px[3 * k - 2], px[3 * k - 1], px[3 * k])]]
             ELSE [shape |-> <<h, w, 3>>,
                   data  |-> [k \in 1..(h * w * 3) |->
                                 IF c = 1 THEN px[(k + 2) \div 3] ELSE px[k]]]

\* cv2.flip(frame, 1): every row reversed, the channels of a sample kept.
flip(frame) ==
    LET w == frame.shape[2]
        c == IF Ndim(frame) = 3 THEN frame.shape[3] ELSE 1
    IN  [shape |-> frame.shape,
         data  |-> [k \in 1..Len(frame.data) |->
                       LET row == (k - 1) \div (w * c)
                           col == ((k - 1) % (w * c)) \div c
                           ch  == (k - 1) % c
                       IN  frame.data[row * w * c + (w - 1 - col) * c + ch + 1]]]

Clamp(v) == IF v < 0 THEN 0 ELSE IF v > 255 THEN 255 ELSE v

Abs(v) == IF v < 0 THEN 0 - v ELSE v

COLORMAP_JET == 2
COLORMAP_HOT == 11

\* The colour ramps of cv2.applyColorMap, as <<blue, green, red>>: the JET
\* ramp, and the HOT ramp.
ColorOf(v, colorMap) ==
    IF colorMap = COLORMAP_JET
    THEN <<Clamp(382 - Abs(4 * v - 255)), Clamp(382 - Abs(4 * v - 510)),
           Clamp(382 - Abs(4 * v - 765))>>
    ELSE <<Clamp(3 * v - 510), Clamp(3 * v - 255), Clamp(3 * v)>>

applyColorMap(src, colorMap) ==
    [shape |-> src.shape \o <<3>>,
     data  |-> [k \in 1..(3 * Len(src.data)) |->
                   ColorOf(src.data[(k + 2) \div 3], colorMap)[((k - 1) % 3) + 1]]]

----------------------------------------------------------------------------
(* PreviewDecoder.  A decoder is called with a packet (or a frame) and with *)
(* the manager or None: hasMgr says which, mgr is the manager object.  The *)
(* result is [raised, ret, manager]: the exception or "", the frame        *)
(* returned, and the manager object as the call leaves it.                 *)

Returns(frame, mgr) == [raised |-> "", ret |-> frame, manager |-> mgr]
Raises(exc, mgr) == [raised |-> exc, ret |-> NoFrame, manager |-> mgr]

\* cv2.flip of what imdecode returned: cv2 rejects None.
Flipped(frame, mgr) ==
    IF frame = NoFrame THEN Raises("cv2.error", mgr) ELSE Returns(flip(frame), mgr)

nn_input(packet, hasMgr, mgr) ==
    LET frame == packet.cvFrame
    IN  IF /\ hasMgr
           /\ "nn_source" \in DOMAIN mgr
           /\ mgr.nn_source \in {"rectified_left", "rectified_right"}
        THEN Returns(flip(frame), mgr)
        ELSE Returns(frame, mgr)

color(packet, hasMgr, mgr) ==
    IF hasMgr /\ mgr.lowBandwidth /\ ~mgr.sync
    THEN Returns(imdecode(packet.data, IMREAD_COLOR), mgr)
    ELSE Returns(packet.cvFrame, mgr)

left(packet, hasMgr, mgr) ==
    IF hasMgr /\ mgr.lowBandwidth /\ ~mgr.sync
    THEN Returns(imdecode(packet.data, IMREAD_GRAYSCALE), mgr)
    ELSE Returns(packet.cvFrame, mgr)

right(packet, hasMgr, mgr) ==
    IF hasMgr /\ mgr.lowBandwidth /\ ~mgr.sync
    THEN Returns(imdecode(packet.data, IMREAD_GRAYSCALE), mgr)
    ELSE Returns(packet.cvFrame, mgr)

rectified_left(packet, hasMgr, mgr) ==
    IF hasMgr /\ mgr.lowBandwidth /\ ~mgr.sync
    THEN Flipped(imdecode(packet.data, IMREAD_GRAYSCALE), mgr)
    ELSE Returns(flip(packet.cvFrame), mgr)

rectified_right(packet, hasMgr, mgr) ==
    IF hasMgr /\ mgr.lowBandwidth
    THEN Flipped(imdecode(packet.data, IMREAD_GRAYSCALE), mgr)
    ELSE Returns(flip(packet.cvFrame), mgr)

depth_raw(packet, hasMgr, mgr) == Returns(packet.frame, mgr)

disparity_color(disparity, hasMgr, mgr) ==
    Returns(applyColorMap(disparity, IF hasMgr THEN mgr.colorMap ELSE COLORMAP_JET), mgr)

\* getattr(manager, attr, default).
GetAttr(hasMgr, mgr, attr, default) ==
    IF hasMgr /\ attr \in DOMAIN mgr THEN mgr[attr] ELSE default

\* The scale factor computed anew on every call.
DispScaleFactor_recompute(depthRaw, hasMgr, mgr) ==
    LET baseline == GetAttr(hasMgr, mgr, "baseline", 75)
        fov      == GetAttr(hasMgr, mgr, "fov", 7186)
        tt       == TwoTanHalf(fov)
        focal    == GetAttr(hasMgr, mgr, "focal",
                            <<depthRaw.shape[2] * tt[2], tt[1]>>)
    IN  <<baseline * focal[1], focal[2]>>

\* The scale factor depth works with: the manager's, or baseline * focal.
DispScaleFactor(depthRaw, hasMgr, mgr) ==
    IF hasMgr /\ "dispScaleFactor" \in DOMAIN mgr
    THEN mgr.dispScaleFactor
    ELSE LET baseline == GetAttr(hasMgr, mgr, "baseline", 75)
             fov      == GetAttr(hasMgr, mgr, "fov", 7186)
             tt       == TwoTanHalf(fov)
             focal    == GetAttr(hasMgr, mgr, "focal",
                                 <<depthRaw.shape[2] * tt[2], tt[1]>>)
         IN  <<baseline * focal[1], focal[2]>>

\* The manager depth leaves behind: setattr(manager, "dispScaleFactor", ...)
\* when the attribute was missing.
DepthManager(depthRaw, hasMgr, mgr) ==
    IF hasMgr /\ "dispScaleFactor" \notin DOMAIN mgr
    THEN [a \in DOMAIN mgr \cup {"dispScaleFactor"} |->
             IF a = "dispScaleFactor" THEN DispScaleFactor(depthRaw, hasMgr, mgr)
             ELSE mgr[a]]
    ELSE mgr

depth(depthRaw, hasMgr, mgr, cast) ==
    LET sf == DispScaleFactor(depthRaw, hasMgr, mgr)
    IN  IF ~hasMgr
        THEN Raises("AttributeError", mgr)
        ELSE LET disp == [shape |-> depthRaw.shape,
                          data  |-> [k \in 1..Len(depthRaw.data) |->
                                        AsUint8(RMul(RDivInt(sf, depthRaw.data[k]),
                                                     mgr.dispMultiplier), cast)]]
             IN  disparity_color(disp, hasMgr, DepthManager(depthRaw, hasMgr, mgr))

disparity(packet, hasMgr, mgr, cast) ==
    LET rawFrame == IF hasMgr /\ mgr.lowBandwidth
                    THEN imdecode(packet.data, IMREAD_GRAYSCALE)
                    ELSE packet.frame
        mult     == IF hasMgr THEN mgr.dispMultiplier ELSE <<255, 96>>
    IN  IF rawFrame = NoFrame
        THEN Raises("TypeError", mgr)
        ELSE Returns([shape |-> rawFrame.shape,
                      data  |-> [k \in 1..Len(rawFrame.data) |->
                                    AsUint8(RMul(<<rawFrame.data[k], 1>>, mult), cast)]],
                     mgr)

----------------------------------------------------------------------------
(* Previews *)

\* The enum with the disparity_color member left out.
PreviewNames_missing ==
    {"nn_input", "color", "left", "right", "rectified_left", "rectified_right",
     "depth_raw", "depth", "disparity"}

\* The members of the Previews enum.
PreviewNames ==
    {"nn_input", "color", "left", "right", "rectified_left", "rectified_right",
     "depth_raw", "depth", "disparity", "disparity_color"}

\* Previews.<kind>.value(input, manager): the decoder the member is bound to.
PreviewValue(kind, input, hasMgr, mgr, cast) ==
    CASE kind = "nn_input"        -> nn_input(input, hasMgr, mgr)
      [] kind = "color"           -> color(input, hasMgr, mgr)
      [] kind = "left"            -> left(input, hasMgr, mgr)
      [] kind = "right"           -> right(input, hasMgr, mgr)
      [] kind = "rectified_left"  -> rectified_left(input, hasMgr, mgr)
      [] kind = "rectified_right" -> rectified_right(input, hasMgr, mgr)
      [] kind = "depth_raw"       -> depth_raw(input, hasMgr, mgr)
      [] kind = "depth"           -> depth(input, hasMgr, mgr, cast)
      [] kind = "disparity"       -> disparity(input, hasMgr, mgr, cast)
      [] kind = "disparity_color" -> disparity_color(input, hasMgr, mgr)

\* Previews[kind].value(input, manager): the lookup of the member by its
\* name, which raises KeyError for a name the enum does not have, then the
\* call of the decoder the member is bound to.
decode(kind, input, hasMgr, mgr, cast) ==
    IF kind \notin PreviewNames
    THEN Raises("KeyError", mgr)
    ELSE PreviewValue(kind, input, hasMgr, mgr, cast)

----------------------------------------------------------------------------
(* MouseClickTracker *)

EVENT_LBUTTONUP == 4

\* ExtractFormat with the shape of the frame tested before the name.
ExtractFormat_shape_first(name, frame, point) ==
    LET x == point[1]
        y == point[2]
    IN  IF ~CanIndex(frame, y) \/ ~CanIndex(Index(frame, y), x)
        THEN [err |-> "IndexError", str |-> ""]
        ELSE LET sample == Index(Index(frame, y), x)
             IN  IF Ndim(frame) = 3 /\ Len(sample.data) >= 3
                 THEN LET rev == Reversed(sample).data
                      IN  [err |-> "",
                           str |-> "R:" \o ToString(rev[1]) \o ",G:"
                                   \o ToString(rev[2]) \o ",B:" \o ToString(rev[3])]
                 ELSE IF Ndim(frame) = 2
                 THEN [err |-> "", str |-> "Gray:" \o NpStr(sample)]
                 ELSE IF name \in {"depth_raw", "depth"}
                 THEN [err |-> "", str |-> NpStr(sample) \o "mm"]
                 ELSE IF name \in {"disparity_color", "disparity"}
                 THEN [err |-> "", str |-> NpStr(sample) \o "px"]
                 ELSE [err |-> "", str |-> NpStr(sample)]

\* The value extract_value computes for name from frame at point = <<x, y>>:
\* [err |-> the exception raised or "", str |-> the formatted string].
ExtractFormat(name, frame, point) ==
    LET x == point[1]
        y == point[2]
    IN  IF ~CanIndex(frame, y) \/ ~CanIndex(Index(frame, y), x)
        THEN [err |-> "IndexError", str |-> ""]
        ELSE LET sample == Index(Index(frame, y), x)
             IN  IF name \in {"depth_raw", "depth"}
                 THEN [err |-> "", str |-> NpStr(sample) \o "mm"]
                 ELSE IF name \in {"disparity_color", "disparity"}
                 THEN [err |-> "", str |-> NpStr(sample) \o "px"]
                 ELSE IF Ndim(frame) = 3
                 THEN LET rev == Reversed(sample).data
                      IN  IF Len(rev) < 3
                          THEN [err |-> "IndexError", str |-> ""]
                          ELSE [err |-> "",
                                str |-> "R:" \o ToString(rev[1]) \o ",G:"
                                        \o ToString(rev[2]) \o ",B:" \o ToString(rev[3])]
                 ELSE IF Ndim(frame) = 2
                 THEN [err |-> "", str |-> "Gray:" \o NpStr(sample)]
                 ELSE [err |-> "", str |-> NpStr(sample)]

\* cb leaving the cached value in place when it removes the coordinate.
cb_keeps_value(name, event, x, y) ==
    IF event = EVENT_LBUTTONUP
    THEN IF name \in DOMAIN points /\ points[name] = <<x, y>>
         THEN /\ points' = [n \in DOMAIN points \ {name} |-> points[n]]
              /\ values' = values
         ELSE /\ points' = [n \in DOMAIN points \cup {name} |->
                               IF n = name THEN <<x, y>> ELSE points[n]]
              /\ values' = values
    ELSE /\ points' = points
         /\ values' = values

\* cb storing the coordinate on every release, without the toggle.
cb_no_toggle(name, event, x, y) ==
    IF event = EVENT_LBUTTONUP
    THEN /\ points' = [n \in DOMAIN points \cup {name} |->
                          IF n = name THEN <<x, y>> ELSE points[n]]
         /\ values' = values
    ELSE /\ points' = points
         /\ values' = values

\* cb without the test of the event type.
cb_any_event(name, event, x, y) ==
    IF name \in DOMAIN points /\ points[name] = <<x, y>>
    THEN /\ points' = [n \in DOMAIN points \ {name} |-> points[n]]
         /\ values' = [n \in DOMAIN values \ {name} |-> values[n]]
    ELSE /\ points' = [n \in DOMAIN points \cup {name} |->
                          IF n = name THEN <<x, y>> ELSE points[n]]
         /\ values' = values

\* The handler select_point(name) returns, called with (event, x, y).
cb(name, event, x, y) ==
    IF event = EVENT_LBUTTONUP
    THEN IF name \in DOMAIN points /\ points[name] = <<x, y>>
         THEN /\ points' = [n \in DOMAIN points \ {name} |-> points[n]]
              /\ values' = [n \in DOMAIN values \ {name} |-> values[n]]
         ELSE /\ points' = [n \in DOMAIN points \cup {name} |->
                               IF n = name THEN <<x, y>> ELSE points[n]]
              /\ values' = values
    ELSE /\ points' = points
         /\ values' = values

\* extract_value reading frame[x][y] in place of frame[y][x].
extract_value_swapped(name, frame) ==
    IF name \notin DOMAIN points
    THEN /\ raised' = ""
         /\ UNCHANGED <<points, values>>
    ELSE LET r == ExtractFormat(name, frame, <<points[name][2], points[name][1]>>)
         IN  IF r.err # ""
             THEN /\ raised' = r.err
                  /\ UNCHANGED <<points, values>>
             ELSE /\ raised' = ""
                  /\ points' = points
                  /\ values' = [n \in DOMAIN values \cup {name} |->
                                   IF n = name THEN r.str ELSE values[n]]

\* extract_value with points.get(name, (0, 0)): a name without a
\* coordinate is read at the origin.
extract_value_default_point(name, frame) ==
    LET point == IF name \in DOMAIN points THEN points[name] ELSE <<0, 0>>
        r     == ExtractFormat(name, frame, point)
    IN  IF r.err # ""
        THEN /\ raised' = r.err
             /\ UNCHANGED <<points, values>>
        ELSE /\ raised' = ""
             /\ points' = points
             /\ values' = [n \in DOMAIN values \cup {name} |->
                              IF n = name THEN r.str ELSE values[n]]

\* extract_value(name, frame); raised' is the exception that leaves it.
extract_value(name, frame) ==
    IF name \notin DOMAIN points
    THEN /\ raised' = ""
         /\ UNCHANGED <<points, values>>
    ELSE LET r == ExtractFormat(name, frame, points[name])
         IN  IF r.err # ""
             THEN /\ raised' = r.err
                  /\ UNCHANGED <<points, values>>
             ELSE /\ raised' = ""
                  /\ points' = points
                  /\ values' = [n \in DOMAIN values \cup {name} |->
                                   IF n = name THEN r.str ELSE values[n]]

----------------------------------------------------------------------------
(* Inputs *)

\* Window names that get a click handler.
Names == {"depth", "color"}

\* One window name of every kind extract_value tells apart, twice over.
KindNames == {"depth_raw", "depth", "disparity", "disparity_color", "color", "left"}

AllNames == Names \cup KindNames

\* Mouse events: EVENT_MOUSEMOVE and EVENT_LBUTTONUP.
Events == {0, EVENT_LBUTTONUP}

\* Click positions: inside every frame, beyond the right or the bottom edge
\* of the smaller frames, and left of or above the window.
XCoords == -2..1
YCoords == -1..1

\* Frames handed to extract_value: every two-dimensional extent, colour
\* frames, a one-dimensional array, a two-channel frame and a
\* four-dimensional array.
Frames ==
    {MkFrame(<<h, w>>, 10) : h \in 1..MaxDim, w \in 1..MaxDim}
    \cup {MkFrame(<<1, 1, 3>>, 100), MkFrame(<<MaxDim, MaxDim, 3>>, 100)}
    \cup {MkFrame(<<MaxDim>>, 7), MkFrame(<<1, 1, 2>>, 20), MkFrame(<<1, 1, 2, 2>>, 30)}

\* Packets: a mono frame, a colour frame, and a packet whose payload does
\* not decode.  The compressed payload and the native buffer of a packet
\* hold different images.
Packets ==
    {[data    |-> Encode(MkFrame(<<1, MaxDim>>, 50)),
      cvFrame |-> MkFrame(<<1, MaxDim>>, 95),
      frame   |-> MkFrame(<<1, MaxDim>>, 95)],
     [data    |-> Encode(MkFrame(<<1, MaxDim, 3>>, 70)),
      cvFrame |-> MkFrame(<<1, MaxDim, 3>>, 80),
      frame   |-> MkFrame(<<1, MaxDim, 3>>, 80)],
     [data    |-> <<>>,
      cvFrame |-> MkFrame(<<1, MaxDim>>, 5),
      frame   |-> MkFrame(<<1, MaxDim>>, 5)]}

\* Raw depth frames handed to depth (samples 0, 1, ... mm) and disparity
\* frames handed to disparity_color, of every width.
DepthFrames == {MkFrame(<<1, w>>, 0) : w \in 1..MaxDim}

\* What decode is called with for a kind.
InputsOf(kind) ==
    IF kind \in {"depth", "disparity_color"} THEN DepthFrames ELSE Packets

\* The cast modes that matter to a kind: depth and disparity alone cast.
CastsOf(kind) ==
    IF kind \in {"depth", "disparity"} THEN CastModes ELSE {"wrap"}

\* Kinds asked of decode: the names of the members and a name that is none.
Kinds ==
    {"nn_input", "color", "left", "right", "rectified_left", "rectified_right",
     "depth_raw", "depth", "disparity", "disparity_color", "video"}

\* The manager objects the collaborator constructs: the flags, the
\* multiplier and the colour map always, the calibration attributes and
\* nn_source optionally.
BaseManagers ==
    {[lowBandwidth |-> lb, sync |-> sy, dispMultiplier |-> <<255, 95>>,
      colorMap |-> COLORMAP_JET] : lb \in BOOLEAN, sy \in BOOLEAN}

With(mgr, attr, value) ==
    [a \in DOMAIN mgr \cup {attr} |-> IF a = attr THEN value ELSE mgr[a]]

DefaultManager ==
    [lowBandwidth |-> FALSE, sync |-> FALSE, dispMultiplier |-> <<255, 95>>,
     colorMap |-> COLORMAP_JET]

Managers ==
    BaseManagers
    \cup {With(With(DefaultManager, "baseline", 100), "fov", 9000),
          With(With(DefaultManager, "focal", <<440, 1>>), "colorMap", COLORMAP_HOT),
          With(DefaultManager, "nn_source", "rectified_left")}

----------------------------------------------------------------------------
(* The state machine *)

\* Number of calls in one run of the kinds specification and of the
\* decoder specification.
KindOps == 2
DecodeOps == 2

NoPoint == [n \in {} |-> <<0, 0>>]
NoValue == [n \in {} |-> ""]

NoInput == [hasMgr |-> FALSE, value |-> NoFrame]
NotExtracted == [at |-> <<0, 0>>, frame |-> NoFrame, stale |-> FALSE, count |-> 0]

\* The state after construction: both maps of the tracker empty.
InitWith(mgrs) ==
    /\ points = NoPoint
    /\ values = NoValue
    /\ manager \in mgrs
    /\ ret = NoFrame
    /\ raised = ""
    /\ call = [op |-> "", name |-> "", arg |-> <<>>]
    /\ given = NoInput
    /\ releases = [n \in AllNames |-> <<>>]
    /\ extracted = [n \in AllNames |-> NotExtracted]
    /\ ops = 0

\* The releases history of name after its handler saw (event, x, y).
Released(name, event, x, y) ==
    IF event = EVENT_LBUTTONUP
    THEN LET this == [pre    |-> IF name \in DOMAIN points THEN {points[name]} ELSE {},
                      at     |-> <<x, y>>,
                      cached |-> name \in DOMAIN values]
             old  == releases[name]
         IN  [releases EXCEPT ![name] =
                 IF old = <<>> THEN <<this>> ELSE <<old[Len(old)], this>>]
    ELSE releases

\* The extraction history of name after a release on it: a value still
\* cached was read before this release.
Outdated(name, event) ==
    IF event # EVENT_LBUTTONUP THEN extracted
    ELSE IF name \in DOMAIN values'
    THEN [extracted EXCEPT ![name].stale = TRUE]
    ELSE [extracted EXCEPT ![name] = NotExtracted]

\* The extraction history of name after extract_value(name, frame).
Extracted(name, frame) ==
    IF name \in DOMAIN points /\ raised' = ""
    THEN [extracted EXCEPT ![name] =
             [at |-> points[name], frame |-> frame, stale |-> FALSE,
              count |-> @.count + 1]]
    ELSE extracted

ClickOn(names, bound) ==
    \E name \in names, event \in Events, x \in XCoords, y \in YCoords :
        /\ ops < bound
        /\ cb(name, event, x, y)
        /\ raised' = ""
        /\ call' = [op |-> "cb", name |-> name, arg |-> <<event>>]
        /\ given' = NoInput
        /\ releases' = Released(name, event, x, y)
        /\ extracted' = Outdated(name, event)
        /\ ret' = NoFrame
        /\ ops' = ops + 1
        /\ UNCHANGED manager

ExtractOn(names, bound) ==
    \E name \in names, frame \in Frames :
        /\ ops < bound
        /\ extract_value(name, frame)
        /\ call' = [op |-> "extract_value", name |-> name, arg |-> frame.shape]
        /\ given' = [hasMgr |-> FALSE, value |-> frame]
        /\ extracted' = Extracted(name, frame)
        /\ ret' = NoFrame
        /\ ops' = ops + 1
        /\ UNCHANGED <<manager, releases>>

Decode(bound) ==
    \E kind \in Kinds, hasMgr \in BOOLEAN :
        \E inp \in InputsOf(kind), cast \in CastsOf(kind) :
            LET r == decode(kind, inp, hasMgr, manager, cast)
            IN  /\ ops < bound
                /\ raised' = r.raised
                /\ ret' = r.ret
                /\ manager' = r.manager
                /\ call' = [op |-> "decode", name |-> kind,
                            arg |-> IF kind = "depth"
                                    THEN DispScaleFactor(inp, hasMgr, manager)
                                    ELSE <<>>]
                /\ given' = [hasMgr |-> hasMgr, value |-> inp]
                /\ ops' = ops + 1
                /\ UNCHANGED <<points, values, releases, extracted>>

\* The tracker: clicks and extractions on two windows.
Init == InitWith({DefaultManager})
Click == ClickOn(Names, MaxOps)
Extract == ExtractOn(Names, MaxOps)
Next == Click \/ Extract
Spec == Init /\ [][Next]_vars

\* The tracker on a window of every kind of name: a click, then an
\* extraction from a frame of every shape.
InitKinds == InitWith({DefaultManager})
ClickKinds == ClickOn(KindNames, KindOps)
ExtractKinds == ExtractOn(KindNames, KindOps)
NextKinds == ClickKinds \/ ExtractKinds
SpecKinds == InitKinds /\ [][NextKinds]_vars

\* The decoders called through the registry with every configuration,
\* interleaved with the tracker on one window.
InitDecode == InitWith(Managers)
ClickDecode == ClickOn({"color"}, DecodeOps)
ExtractDecode == ExtractOn({"color"}, DecodeOps)
DecodeAny == Decode(DecodeOps)
NextDecode == ClickDecode \/ ExtractDecode \/ DecodeAny
SpecDecode == InitDecode /\ [][NextDecode]_vars

----------------------------------------------------------------------------
(* Properties of the MouseClickTracker *)

DepthKinds == {"depth_raw", "depth"}
DisparityKinds == {"disparity", "disparity_color"}

EndsWith(str, suffix) ==
    /\ Len(str) >= Len(suffix)
    /\ SubSeq(str, Len(str) - Len(suffix) + 1, Len(str)) = suffix

StartsWith(str, prefix) ==
    /\ Len(str) >= Len(prefix)
    /\ SubSeq(str, 1, Len(prefix)) = prefix

\* <<x, y>> names a row and a column of a frame of this shape.
Inside(shape, point) ==
    /\ Len(shape) >= 2
    /\ point[1] \in 0..(shape[2] - 1)
    /\ point[2] \in 0..(shape[1] - 1)

\* The maps f and g agree on every name but n.
SameElsewhere(f, g, n) ==
    \A m \in (DOMAIN f \cup DOMAIN g) \ {n} :
        m \in DOMAIN f /\ m \in DOMAIN g /\ f[m] = g[m]

\* The string extract_value reads for n from the frame of its last
\* extraction at the coordinate at.
ReadAt(n, at) == ExtractFormat(n, extracted[n].frame, at)

\* C1 as claimed: a name has a value only if it has a coordinate and the
\* value is the one extracted at the coordinate stored now.
C1_ValueOfCurrentPoint ==
    \A n \in DOMAIN values :
        /\ n \in DOMAIN points
        /\ ReadAt(n, points[n]) = [err |-> "", str |-> values[n]]

\* C1, amended: a name has a value only if it has a coordinate, and the
\* value is the one extracted at the coordinate that was stored when
\* extract_value last stored a value for the name; that coordinate is the
\* one stored now unless a later click has replaced it.
C1_ValueOfExtractedPoint ==
    \A n \in DOMAIN values :
        /\ n \in DOMAIN points
        /\ ReadAt(n, extracted[n].at) = [err |-> "", str |-> values[n]]
        /\ ~extracted[n].stale => extracted[n].at = points[n]

\* A value outlives the coordinate it was read at.
C1_Witness ==
    \E n \in DOMAIN values :
        /\ extracted[n].stale
        /\ n \in DOMAIN points
        /\ points[n] # extracted[n].at

\* The last two releases of n were at the same coordinate.
TwoReleasesAt(n) ==
    /\ Len(releases[n]) = 2
    /\ releases[n][1].at = releases[n][2].at

\* C2 as claimed: after two releases at the same coordinate, from any
\* state, the name has neither a coordinate nor a value.
C2_ToggleFromAnyState ==
    \A n \in Names :
        TwoReleasesAt(n) => n \notin DOMAIN points /\ n \notin DOMAIN values

\* C2, amended: after two releases at the same coordinate (x, y), the first
\* of them delivered in a state where the coordinate stored for the name
\* was not (x, y), the name has neither a coordinate nor a value.
C2_ToggleFromOtherPoint ==
    \A n \in Names :
        TwoReleasesAt(n) /\ releases[n][1].pre # {releases[n][1].at}
            => n \notin DOMAIN points /\ n \notin DOMAIN values

\* The second release removed a value extracted between the two.
C2_Witness ==
    \E n \in Names :
        /\ TwoReleasesAt(n)
        /\ releases[n][1].pre # {releases[n][1].at}
        /\ ~releases[n][1].cached
        /\ releases[n][2].cached
        /\ call = [op |-> "cb", name |-> n, arg |-> <<EVENT_LBUTTONUP>>]
        /\ n \notin DOMAIN values

\* What C3 says of a step of the handler of n for an event, the release
\* being at the coordinate at.
C3_Effect(n, event, at) ==
    /\ SameElsewhere(points, points', n)
    /\ SameElsewhere(values, values', n)
    /\ IF event # EVENT_LBUTTONUP
       THEN points' = points /\ values' = values
       ELSE IF n \in DOMAIN points /\ points[n] = at
       THEN n \notin DOMAIN points' /\ n \notin DOMAIN values'
       ELSE n \in DOMAIN points' /\ points'[n] = at

\* C3: a release at the stored coordinate removes the name from both maps,
\* a release elsewhere stores the coordinate, any other event changes
\* neither map, and the entries of other names are never changed.
C3_HandlerEffect ==
    [][call'.op = "cb" =>
          C3_Effect(call'.name, call'.arg[1],
                    IF call'.arg[1] = EVENT_LBUTTONUP
                    THEN releases'[call'.name][Len(releases'[call'.name])].at
                    ELSE <<0, 0>>)]_vars

\* A release toggled one name off while another name keeps its coordinate.
C3_Witness ==
    /\ call.op = "cb"
    /\ call.arg = <<EVENT_LBUTTONUP>>
    /\ TwoReleasesAt(call.name)
    /\ call.name \notin DOMAIN points
    /\ DOMAIN points # {}

\* C4: extract_value never changes the point map; without a coordinate for
\* the name it changes nothing; with one it changes the value of the name
\* alone, which becomes the string read at the coordinate.
C4_ExtractEffect ==
    [][call'.op = "extract_value" =>
          LET n == call'.name
          IN  /\ points' = points
              /\ n \notin DOMAIN points => values' = values
              /\ SameElsewhere(values, values', n)
              /\ raised' # "" => values' = values
              /\ (n \in DOMAIN points /\ raised' = "") =>
                    /\ n \in DOMAIN values'
                    /\ ExtractFormat(n, given'.value, points[n])
                           = [err |-> "", str |-> values'[n]]]_vars

\* A second extraction overwrote the value of a name.
C4_Witness ==
    /\ call.op = "extract_value"
    /\ raised = ""
    /\ call.name \in DOMAIN values
    /\ extracted[call.name].count = 2

\* C10: every name with a cached value has a selected coordinate.
C10_ValuesWithinPoints == DOMAIN values \subseteq DOMAIN points

\* A release at another coordinate left the cached value of the name in place.
C10_Witness ==
    /\ call.op = "cb"
    /\ call.arg = <<EVENT_LBUTTONUP>>
    /\ call.name \in DOMAIN values

\* C8 as claimed: extract_value with a stored coordinate that is no row and
\* column of the frame raises the bounds error.
C8_OutsideRaises ==
    (/\ call.op = "extract_value"
     /\ call.name \in DOMAIN points
     /\ Len(call.arg) >= 2
     /\ ~Inside(call.arg, points[call.name]))
        => raised = "IndexError"

\* C5: with the stored coordinate inside the frame, a depth name gets a
\* string ending in "mm" and a disparity name one ending in "px", whatever
\* the dimensions of the frame; "R:" and "Gray:" are for the other names.
C5_KindSuffix ==
    (/\ call.op = "extract_value"
     /\ call.name \in DOMAIN points
     /\ Inside(call.arg, points[call.name]))
        => LET n == call.name
           IN  /\ n \in DepthKinds \cup DisparityKinds =>
                     /\ raised = ""
                     /\ n \in DOMAIN values
                     /\ n \in DepthKinds => EndsWith(values[n], "mm")
                     /\ n \in DisparityKinds => EndsWith(values[n], "px")
                     /\ ~StartsWith(values[n], "R:")
                     /\ ~StartsWith(values[n], "Gray:")
               /\ (n \notin DepthKinds \cup DisparityKinds /\ raised = "") =>
                     /\ Len(call.arg) = 3 => StartsWith(values[n], "R:")
                     /\ Len(call.arg) = 2 => StartsWith(values[n], "Gray:")

\* A depth name read from a three-channel frame.
C5_Witness ==
    /\ call.op = "extract_value"
    /\ call.name = "depth_raw"
    /\ Len(call.arg) = 3
    /\ call.arg[3] = 3
    /\ call.name \in DOMAIN points
    /\ Inside(call.arg, points[call.name])
    /\ call.name \in DOMAIN values
    /\ EndsWith(values[call.name], "mm")

----------------------------------------------------------------------------
(* Properties of the decoders *)

\* The ten registered kinds, as the registry is documented.
RegisteredKinds ==
    {"nn_input", "color", "left", "right", "rectified_left", "rectified_right",
     "depth_raw", "depth", "disparity", "disparity_color"}

\* The last call was decode of kind.
Decoded(kind) == call.op = "decode" /\ call.name = kind

\* C6 for rectified_left alone, which tests both flags as left does.
RectifiedLeftIsMirror ==
    (Decoded("rectified_left") /\ imdecode(given.value.data, IMREAD_GRAYSCALE) # NoFrame)
        => raised = "" /\ ret = flip(left(given.value, given.hasMgr, manager).ret)

\* The frame the unrectified decoder of a rectified kind returns for the
\* input of the last call under the same configuration.
Unrectified(kind) ==
    IF kind = "rectified_left"
    THEN left(given.value, given.hasMgr, manager)
    ELSE right(given.value, given.hasMgr, manager)

\* C6 as claimed: for a packet whose payload decodes, under every
\* configuration, rectified_left returns the mirror of what left returns
\* and rectified_right the mirror of what right returns.
C6_RectifiedIsMirror ==
    \A kind \in {"rectified_left", "rectified_right"} :
        (Decoded(kind) /\ imdecode(given.value.data, IMREAD_GRAYSCALE) # NoFrame)
            => raised = "" /\ ret = flip(Unrectified(kind).ret)

BaselineTimesFocal(mgr, shape) ==
    LET baseline == IF "baseline" \in DOMAIN mgr THEN mgr.baseline ELSE 75
        fov      == IF "fov" \in DOMAIN mgr THEN mgr.fov ELSE 7186
        focal    == IF "focal" \in DOMAIN mgr THEN mgr.focal
                    ELSE <<shape[2] * TwoTanHalf(fov)[2], TwoTanHalf(fov)[1]>>
    IN  <<baseline * focal[1], focal[2]>>

\* C9: the first depth call with a configuration that has no scale factor
\* stores baseline * focal length on it; a stored scale factor never
\* changes, and a depth call made with the configuration works with the
\* stored value; no other decoder writes the configuration.
C9_ScaleFactorMemo ==
    [][call'.op = "decode" =>
          /\ "dispScaleFactor" \in DOMAIN manager =>
                /\ manager' = manager
                /\ (call'.name = "depth" /\ given'.hasMgr) =>
                       call'.arg = manager.dispScaleFactor
          /\ (call'.name # "depth" \/ ~given'.hasMgr) => manager' = manager
          /\ (/\ call'.name = "depth"
              /\ given'.hasMgr
              /\ "dispScaleFactor" \notin DOMAIN manager) =>
                /\ manager' = With(manager, "dispScaleFactor",
                                   BaselineTimesFocal(manager, given'.value.shape))
                /\ call'.arg = manager'.dispScaleFactor]_vars

\* A depth call worked with a stored scale factor that differs from the
\* one the width of its frame gives.
C9_Witness ==
    /\ Decoded("depth")
    /\ given.hasMgr
    /\ raised = ""
    /\ "dispScaleFactor" \in DOMAIN manager
    /\ call.arg = manager.dispScaleFactor
    /\ call.arg # BaselineTimesFocal(manager, given.value.shape)

====
